---------------------------- MODULE Spec2Model ----------------------------
(***************************************************************************)
(* A model of django_pgpool's gevent connection pool                       *)
(* (src/django_pgpool/psycopg2_pool.py, AbstractDatabaseConnectionPool).   *)
(*                                                                         *)
(* The pool runs under gevent's cooperative scheduling: a task runs until  *)
(* it suspends.  The suspension points of the pool code are the factory    *)
(* call (create_connection, line 147) and the bounded wait on the free     *)
(* list (self._pool.get(timeout=...), line 159); everything between two    *)
(* suspension points is one atomic action of the model.                    *)
(*                                                                         *)
(* Python's None is the empty sequence and a value v is <<v>> wherever the *)
(* code tells None from a number; the configuration values expires and     *)
(* cleanup are only ever tested for truth, so a disabled one is 0.         *)
(***************************************************************************)
EXTENDS Integers, Sequences, FiniteSets, TLC

\* ------------------------------------------------------------- bounds
NumTasks == 2          \* concurrent tasks of the general specifications
MaxConns == 2          \* connections the factory hands out in one run
MaxFails == 1          \* factory calls that fail in one run
MaxDrops == 1          \* connections the backend drops in one run
MaxCloseAll == 1       \* closeall() calls from outside the pool in one run
Horizon == 3           \* clock ticks observed after the pool is built
T0 == 3                \* the clock reading (time.time()) at construction
MaxSizeCfg == 2        \* largest maxsize tried
MaxWaitCfg == 1        \* the value of maxwait
ExpiresCfg == 2        \* the value of expires when it is set
CleanupCfg == 1        \* the value of cleanup when it is set
NumOverflowTasks == 8  \* most tasks started together in the overflow runs
WorkTicks == 2         \* clock ticks a task of the overflow runs holds its connection
NumSweepTasks == 3     \* tasks, and maxsize, of the sweep runs
ShortExpires == 1      \* an expires smaller than ...
LongCleanup == 2       \* ... this cleanup
NumAccessors == 3      \* concurrent tasks that read a wrapper's pool property
NumWrappers == 2       \* database wrappers

\* 0xffffffffffffffff of line 76: a next-sweep time no clock reading reaches
NoSweepTime == 2147483647

\* the isolation level of a fresh connection and the level the scopes of
\* the model ask for
DefaultLevel == "READ_COMMITTED"
OtherLevel == "REPEATABLE_READ"

Tasks == 1..NumTasks
MaxTime == T0 + Horizon
Levels == {DefaultLevel, OtherLevel}

VARIABLES
    \* configuration, fixed by __init__
    maxsize, maxwait, expires, cleanup,
    \* the pool object
    size,            \* self._size
    pool,            \* items of the LifoQueue bound to self._pool, top last
    getters,         \* tasks blocked in get() on the queue bound to self._pool
    created_at,      \* self._created_at  (connection -> time)
    latest_use,      \* self._latest_use  (connection -> time)
    latest_cleanup,  \* self._latest_cleanup, the next-scheduled-sweep time
    \* connections
    closed,          \* connections whose transport reports closed
    isolation,       \* connection -> its isolation level
    \* tasks
    pc, conn, deadline, isolation_level, err,
    prior,           \* observer: the level a task's connection had on entry
    \* environment
    now,             \* time.time()
    handled,         \* failures given to the hub's error handler
    nconns,          \* connections created so far (the next one is nconns + 1)
    nfails,          \* factory calls that have failed so far
    ndrops,          \* connections the backend has dropped so far
    ncloseall,       \* closeall() calls from outside the pool so far
    \* observer: free-list entries in the order they were returned
    retOrder,
    \* the transports' close() raises (a property of the backend)
    close_fails,
    \* the registry of base.py
    connection_pools,       \* alias -> Pool (module-level dict, line 28)
    connection_pools_lock,  \* the accessor holding the Semaphore, or NoAccessor
    wrapper_pool,           \* wrapper -> its self._pool (NoPool: None)
    alias_of,               \* wrapper -> its alias
    wrapper_of,             \* accessor -> the wrapper whose property it reads
    apc,                    \* accessor -> its position in the property
    got,                    \* observer: accessor -> the Pool its last access returned
    constructed             \* observer: the alias each Pool was constructed for

poolVars == <<size, pool, getters, created_at, latest_use, latest_cleanup, closed>>
registryVars == <<connection_pools, connection_pools_lock, wrapper_pool,
                  alias_of, wrapper_of, apc, got, constructed>>
\* what no operation of the pool changes
cfgVars == <<maxsize, maxwait, expires, cleanup, close_fails, registryVars>>
taskVars == <<pc, conn, deadline, isolation_level, err, prior>>
counters == <<nconns, nfails, ndrops, ncloseall>>
vars == <<maxsize, maxwait, expires, cleanup, size, pool, getters, created_at,
          latest_use, latest_cleanup, nconns, nfails, closed, isolation, pc,
          conn, deadline, isolation_level, err, prior, now, handled, ndrops,
          ncloseall, retOrder, close_fails, registryVars>>

\* ------------------------------------------------------------ helpers
None == <<>>
Some(v) == <<v>>
Truthy(o) == o # None /\ o[1] # 0

Last(s) == s[Len(s)]
Front(s) == SubSeq(s, 1, Len(s) - 1)
Range(s) == {s[i] : i \in 1..Len(s)}
Min2(a, b) == IF a <= b THEN a ELSE b

EmptyDict == [k \in {} |-> 0]
DictSet(d, k, v) == [x \in (DOMAIN d) \cup {k} |-> IF x = k THEN v ELSE d[x]]
DictPop(d, k) == [x \in (DOMAIN d) \ {k} |-> d[x]]
DictGet(d, k, default) == IF k \in DOMAIN d THEN d[k] ELSE default

\* a or b, on numbers
PyOr(a, b) == IF a # 0 THEN a ELSE b

\* ------------------------------------------------ the pool as a record
\* The methods below are functions from the pool's fields to its fields.
Self ==
    [size |-> size, pool |-> pool, getters |-> getters,
     created_at |-> created_at, latest_use |-> latest_use,
     latest_cleanup |-> latest_cleanup, closed |-> closed]

Store(S) ==
    /\ size' = S.size
    /\ pool' = S.pool
    /\ getters' = S.getters
    /\ created_at' = S.created_at
    /\ latest_use' = S.latest_use
    /\ latest_cleanup' = S.latest_cleanup
    /\ closed' = S.closed

\* __init__, lines 76-77
InitLatestCleanup(e, c) == IF e # 0 \/ c # 0 THEN 0 ELSE NoSweepTime
IntervalCleanup(e, c) ==
    IF e # 0 \/ c # 0 THEN Min2(PyOr(e, c), PyOr(c, e)) ELSE 0

\* close_connection that forgets the size
close_connection_keeps_size(S, item) ==
    [S EXCEPT !.created_at = DictPop(@, item),
              !.latest_use = DictPop(@, item),
              !.closed = @ \cup {item}]

\* close_connection that closes the transport before it does the books
close_connection_close_first(S, item) ==
    IF close_fails THEN S
    ELSE [S EXCEPT !.size = @ - 1,
                   !.created_at = DictPop(@, item),
                   !.latest_use = DictPop(@, item),
                   !.closed = @ \cup {item}]

\* close_connection, lines 83-90: item.close() comes last and marks the
\* transport closed; when it raises, the transport stays as it was and the
\* failure is swallowed
close_connection(S, item) ==
    [S EXCEPT !.size = @ - 1,
              !.created_at = DictPop(@, item),
              !.latest_use = DictPop(@, item),
              !.closed = IF close_fails THEN @ ELSE @ \cup {item}]

\* a drain that takes the items of old_pool from its bottom
RECURSIVE drain_from_bottom(_, _, _, _)
drain_from_bottom(old_pool, S, cl, ex) ==
    IF old_pool = <<>> THEN S
    ELSE LET item == Head(old_pool)
             rest == Tail(old_pool)
         IN  IF Truthy(cl) /\ DictGet(S.latest_use, item, 0) < cl[1]
             THEN drain_from_bottom(rest, close_connection(S, item), cl, ex)
             ELSE IF Truthy(ex) /\ DictGet(S.created_at, item, 0) < ex[1]
             THEN drain_from_bottom(rest, close_connection(S, item), cl, ex)
             ELSE drain_from_bottom(rest, [S EXCEPT !.pool = Append(@, item)], cl, ex)

\* lines 115-122: drain old_pool from its top, closing or keeping each item
RECURSIVE drain_old_pool(_, _, _, _)
drain_old_pool(old_pool, S, cl, ex) ==
    IF old_pool = <<>> THEN S
    ELSE LET item == Last(old_pool)
             rest == Front(old_pool)
         IN  IF Truthy(cl) /\ DictGet(S.latest_use, item, 0) < cl[1]
             THEN drain_old_pool(rest, close_connection(S, item), cl, ex)
             ELSE IF Truthy(ex) /\ DictGet(S.created_at, item, 0) < ex[1]
             THEN drain_old_pool(rest, close_connection(S, item), cl, ex)
             ELSE drain_old_pool(rest, [S EXCEPT !.pool = Append(@, item)], cl, ex)

\* lines 130-135: move every item of old_pool, from its top, onto new_pool
RECURSIVE reverse_back(_, _)
reverse_back(old_pool, new_pool) ==
    IF old_pool = <<>> THEN new_pool
    ELSE reverse_back(Front(old_pool), Append(new_pool, Last(old_pool)))

\* the sweep that leaves the survivors in drained order
restore_order_skipped(S) == S

\* lines 126-135
restore_order(S) ==
    IF Len(S.pool) < 2 THEN S
    ELSE [S EXCEPT !.pool = reverse_back(S.pool, <<>>)]

\* the sweep that never computes the age threshold
cleanup_queue_no_expiry(S, t) ==
    IF S.latest_cleanup > t THEN S
    ELSE LET cl == IF cleanup # 0 THEN Some(t - cleanup) ELSE None
             S1 == [S EXCEPT !.latest_cleanup = t + IntervalCleanup(expires, cleanup),
                             !.pool = <<>>,
                             !.getters = <<>>]
         IN  restore_order(drain_old_pool(S.pool, S1, cl, None))

\* the sweep that runs whether it is due or not
cleanup_queue_always(S, t) ==
    LET cl == IF cleanup # 0 THEN Some(t - cleanup) ELSE None
        ex == IF expires # 0 THEN Some(t - expires) ELSE None
        S1 == [S EXCEPT !.latest_cleanup = t + IntervalCleanup(expires, cleanup),
                        !.pool = <<>>,
                        !.getters = <<>>]
    IN  restore_order(drain_old_pool(S.pool, S1, cl, ex))

\* _cleanup_queue, lines 95-135.  The lock is never contended: nothing
\* between its acquisition and release suspends.  Binding self._pool to a
\* fresh LifoQueue (line 110) leaves the tasks blocked on the old queue
\* object behind: the new queue has no getters.
cleanup_queue(S, t) ==
    IF S.latest_cleanup > t THEN S
    ELSE LET cl == IF cleanup # 0 THEN Some(t - cleanup) ELSE None
             ex == IF expires # 0 THEN Some(t - expires) ELSE None
             S1 == [S EXCEPT !.latest_cleanup = t + IntervalCleanup(expires, cleanup),
                             !.pool = <<>>,
                             !.getters = <<>>]
         IN  restore_order(drain_old_pool(S.pool, S1, cl, ex))

\* put, lines 166-171
put(S, c, t) ==
    cleanup_queue([S EXCEPT !.pool = Append(@, c),
                            !.latest_use = DictSet(@, c, t)], t)

\* closeall without the try around conn.close(): the first failing close
\* ends the call
closeall_unguarded(S) ==
    IF close_fails /\ S.pool # <<>>
    THEN [S EXCEPT !.pool = Front(@)]
    ELSE [S EXCEPT !.pool = <<>>,
                   !.closed = @ \cup Range(S.pool),
                   !.size = 0]

\* closeall, lines 173-180 (a failing conn.close() is swallowed and leaves
\* the transport as it was)
closeall(S) ==
    [S EXCEPT !.pool = <<>>,
              !.closed = IF close_fails THEN @ ELSE @ \cup Range(S.pool),
              !.size = 0]

\* the observer after a step: what is still in the free list, in return order
Returned(order) ==
    LET InPool(x) == x \in Range(pool') IN SelectSeq(order, InPool)


\* ------------------------------------------------------------- tasks
\* pc of a task: "idle"      not in a call
\*               "creating"  suspended in create_connection (line 147)
\*               "waiting"   suspended in self._pool.get(timeout) (line 159)
\*               "body"      inside the with-block of connection()
\* Every task takes its connections through the context manager connection()
\* (lines 182-207), as execute, fetchone, fetchall and cursor do;
\* isolation_level is that call's parameter and err the failure the task's
\* last call ended with.

NoConn == 0
NoErr == "none"
NoRequest == {None}
Requests == {None, Some(OtherLevel)}

Remove(s, x) == LET Keep(y) == y # x IN SelectSeq(s, Keep)

\* get() has returned c to task t, whose call asked for level lvl:
\* connection() runs lines 186-191 up to the yield.  iso is the isolation
\* map to update.
Acquire(t, c, lvl, iso) ==
    /\ conn' = [conn EXCEPT ![t] = c]
    /\ deadline' = [deadline EXCEPT ![t] = 0]
    /\ err' = [err EXCEPT ![t] = NoErr]
    /\ pc' = [pc EXCEPT ![t] = "body"]
    /\ prior' = [prior EXCEPT ![t] = iso[c]]
    /\ IF lvl # None /\ iso[c] = lvl[1]
       THEN /\ isolation_level' = [isolation_level EXCEPT ![t] = None]
            /\ isolation' = iso
       ELSE IF lvl # None
       THEN /\ isolation_level' = [isolation_level EXCEPT ![t] = lvl]
            /\ isolation' = [iso EXCEPT ![c] = lvl[1]]
       ELSE /\ isolation_level' = [isolation_level EXCEPT ![t] = None]
            /\ isolation' = iso

\* the call ends for task t with failure e (or NoErr), holding nothing
Finish(t, e) ==
    /\ pc' = [pc EXCEPT ![t] = "idle"]
    /\ conn' = [conn EXCEPT ![t] = NoConn]
    /\ deadline' = [deadline EXCEPT ![t] = 0]
    /\ isolation_level' = [isolation_level EXCEPT ![t] = None]
    /\ err' = [err EXCEPT ![t] = e]
    /\ prior' = [prior EXCEPT ![t] = DefaultLevel]

\* get on the create path that does not count the connection it asks for
GetCreateUncounted(t, R) ==
    /\ pc[t] = "idle"
    /\ pool = <<>>
    /\ size < maxsize
    /\ \E lvl \in R :
          isolation_level' = [isolation_level EXCEPT ![t] = lvl]
    /\ pc' = [pc EXCEPT ![t] = "creating"]
    /\ err' = [err EXCEPT ![t] = NoErr]
    /\ UNCHANGED <<cfgVars, poolVars, counters, isolation, conn, deadline,
                   prior, now, handled, retOrder>>

\* a factory failure that leaves the connection counted
FactoryFailNoRollback(t) ==
    /\ pc[t] = "creating"
    /\ nfails < MaxFails
    /\ nfails' = nfails + 1
    /\ Finish(t, "FactoryError")
    /\ UNCHANGED <<cfgVars, poolVars, nconns, ndrops, ncloseall, isolation,
                   now, handled, retOrder>>

\* a timed-out wait that gives back a slot it never took
TimeoutGivesBack(t) ==
    /\ pc[t] = "waiting"
    /\ now >= deadline[t]
    /\ ~(t \in Range(getters) /\ pool # <<>>)
    /\ getters' = Remove(getters, t)
    /\ size' = size - 1
    /\ Finish(t, "CapacityExceeded")
    /\ UNCHANGED <<cfgVars, pool, created_at, latest_use, latest_cleanup,
                   closed, counters, isolation, now, handled, retOrder>>

\* a wait that does not use the budget maxwait
GetWaitNoBudget(t, R) ==
    /\ pc[t] = "idle"
    /\ pool = <<>>
    /\ size >= maxsize
    /\ \E lvl \in R :
          isolation_level' = [isolation_level EXCEPT ![t] = lvl]
    /\ pc' = [pc EXCEPT ![t] = "waiting"]
    /\ deadline' = [deadline EXCEPT ![t] = now + 1]
    /\ err' = [err EXCEPT ![t] = NoErr]
    /\ getters' = Append(getters, t)
    /\ UNCHANGED <<cfgVars, size, pool, created_at, latest_use, latest_cleanup,
                   closed, counters, isolation, conn, prior, now, handled,
                   retOrder>>

\* In the three entries of get() below, R is the set of isolation levels
\* the caller's connection(isolation_level) may ask for.

\* get, lines 139-142: the free list has an item
GetReuse(t, R) ==
    /\ pc[t] = "idle"
    /\ pool # <<>>
    /\ \E lvl \in R : Acquire(t, Last(pool), lvl, isolation)
    /\ pool' = Front(pool)
    /\ retOrder' = Returned(retOrder)
    /\ UNCHANGED <<cfgVars, size, getters, created_at, latest_use,
                   latest_cleanup, closed, counters, now, handled>>

\* get, lines 144-147: below capacity, count the connection and call the factory
GetCreate(t, R) ==
    /\ pc[t] = "idle"
    /\ pool = <<>>
    /\ size < maxsize
    /\ size' = size + 1
    /\ \E lvl \in R :
          isolation_level' = [isolation_level EXCEPT ![t] = lvl]
    /\ pc' = [pc EXCEPT ![t] = "creating"]
    /\ err' = [err EXCEPT ![t] = NoErr]
    /\ UNCHANGED <<cfgVars, pool, getters, created_at, latest_use,
                   latest_cleanup, closed, counters, isolation, conn,
                   deadline, prior, now, handled, retOrder>>

\* get, lines 147 and 152-155: the factory returns a connection, the
\* (nconns + 1)-th of at most limit
Connect(t, limit) ==
    /\ pc[t] = "creating"
    /\ nconns < limit
    /\ LET c == nconns + 1 IN
          /\ nconns' = c
          /\ created_at' = DictSet(created_at, c, now)
          /\ latest_use' = DictSet(latest_use, c, now)
          /\ Acquire(t, c, isolation_level[t],
                     DictSet(isolation, c, DefaultLevel))
    /\ UNCHANGED <<cfgVars, size, pool, getters, latest_cleanup, closed,
                   nfails, ndrops, ncloseall, now, handled, retOrder>>

FactoryOk(t) == Connect(t, MaxConns)

\* get, lines 148-150: the factory raises
FactoryFail(t) ==
    /\ pc[t] = "creating"
    /\ nfails < MaxFails
    /\ nfails' = nfails + 1
    /\ size' = size - 1
    /\ Finish(t, "FactoryError")
    /\ UNCHANGED <<cfgVars, pool, getters, created_at, latest_use,
                   latest_cleanup, closed, nconns, ndrops, ncloseall,
                   isolation, now, handled, retOrder>>

\* get, lines 156-159: at capacity, block on the free list for maxwait
GetWait(t, R) ==
    /\ pc[t] = "idle"
    /\ pool = <<>>
    /\ size >= maxsize
    /\ \E lvl \in R :
          isolation_level' = [isolation_level EXCEPT ![t] = lvl]
    /\ pc' = [pc EXCEPT ![t] = "waiting"]
    /\ deadline' = [deadline EXCEPT ![t] = now + maxwait]
    /\ err' = [err EXCEPT ![t] = NoErr]
    /\ getters' = Append(getters, t)
    /\ UNCHANGED <<cfgVars, size, pool, created_at, latest_use, latest_cleanup,
                   closed, counters, isolation, conn, prior, now, handled,
                   retOrder>>

\* get, lines 159-161: the queue the task blocks on has an item; gevent
\* resumes its first getter, which takes the top item
Wake(t) ==
    /\ pc[t] = "waiting"
    /\ getters # <<>>
    /\ Head(getters) = t
    /\ pool # <<>>
    /\ getters' = Tail(getters)
    /\ pool' = Front(pool)
    /\ Acquire(t, Last(pool), isolation_level[t], isolation)
    /\ retOrder' = Returned(retOrder)
    /\ UNCHANGED <<cfgVars, size, created_at, latest_use, latest_cleanup,
                   closed, counters, now, handled>>

\* get, lines 162-163: the wait ends with Empty.  gevent runs the wake-ups a
\* put scheduled before it fires timers, so a getter of a queue that holds
\* an item is resumed, not timed out.
Timeout(t) ==
    /\ pc[t] = "waiting"
    /\ now >= deadline[t]
    /\ ~(t \in Range(getters) /\ pool # <<>>)
    /\ getters' = Remove(getters, t)
    /\ Finish(t, "CapacityExceeded")
    /\ UNCHANGED <<cfgVars, size, pool, created_at, latest_use, latest_cleanup,
                   closed, counters, isolation, now, handled, retOrder>>

\* connection(), lines 203-207: the finally block for a connection that is
\* still there and open: set the level held in isolation_level, then put
ReturnToPool(t) ==
    /\ isolation' = IF isolation_level[t] # None
                    THEN [isolation EXCEPT ![conn[t]] = isolation_level[t][1]]
                    ELSE isolation
    /\ Store(put(Self, conn[t], now))
    /\ retOrder' = Returned(Append(retOrder, conn[t]))

\* connection(), lines 199-207: the with-block ends normally
BodyReturn(t) ==
    /\ pc[t] = "body"
    /\ IF conn[t] \in closed
       THEN /\ Finish(t, "CommitOnClosed")
            /\ UNCHANGED <<poolVars, isolation, retOrder>>
       ELSE /\ ReturnToPool(t)
            /\ Finish(t, NoErr)
    /\ UNCHANGED <<cfgVars, counters, now, handled>>

\* an exceptional exit that never asks whether the transport is closed
BodyRaiseNoClosedCheck(t) ==
    /\ pc[t] = "body"
    /\ \E ok \in BOOLEAN :
          IF ok /\ conn[t] \notin closed
          THEN /\ ReturnToPool(t)
               /\ UNCHANGED handled
          ELSE /\ handled' = handled \cup {conn[t]}
               /\ UNCHANGED <<poolVars, isolation, retOrder>>
    /\ Finish(t, "BodyError")
    /\ UNCHANGED <<cfgVars, counters, now>>

\* an exceptional exit that lets a failing rollback take the place of the
\* failure of the with-block
BodyRaiseRollbackReplaces(t) ==
    /\ pc[t] = "body"
    /\ IF conn[t] \in closed
       THEN /\ Store(closeall(Self))
            /\ retOrder' = Returned(retOrder)
            /\ Finish(t, "BodyError")
            /\ UNCHANGED <<isolation, handled>>
       ELSE \E ok \in BOOLEAN :
              IF ok
              THEN /\ ReturnToPool(t)
                   /\ Finish(t, "BodyError")
                   /\ UNCHANGED handled
              ELSE /\ Finish(t, "RollbackError")
                   /\ UNCHANGED <<poolVars, isolation, retOrder, handled>>
    /\ UNCHANGED <<cfgVars, counters, now>>

\* connection(), lines 192-198 and 203-207, with _rollback, lines 215-221:
\* the with-block raises; ok tells whether conn.rollback() succeeds
BodyRaise(t) ==
    /\ pc[t] = "body"
    /\ IF conn[t] \in closed
       THEN /\ Store(closeall(Self))
            /\ retOrder' = Returned(retOrder)
            /\ UNCHANGED <<isolation, handled>>
       ELSE \E ok \in BOOLEAN :
              IF ok
              THEN /\ ReturnToPool(t)
                   /\ UNCHANGED handled
              ELSE /\ handled' = handled \cup {conn[t]}
                   /\ UNCHANGED <<poolVars, isolation, retOrder>>
    /\ Finish(t, "BodyError")
    /\ UNCHANGED <<cfgVars, counters, now>>

\* the backend drops a connection a task holds: its closed flag turns true
TransportClose(t) ==
    /\ pc[t] = "body"
    /\ conn[t] \notin closed
    /\ ndrops < MaxDrops
    /\ ndrops' = ndrops + 1
    /\ closed' = closed \cup {conn[t]}
    /\ UNCHANGED <<cfgVars, size, pool, getters, created_at, latest_use,
                   latest_cleanup, nconns, nfails, ncloseall, isolation,
                   taskVars, now, handled, retOrder>>

\* cleanup(), lines 92-93 (DatabaseWrapper.close_too_old, base.py 105-106)
Cleanup ==
    /\ Store(cleanup_queue(Self, now))
    /\ retOrder' = Returned(retOrder)
    /\ UNCHANGED <<cfgVars, counters, isolation, taskVars, now, handled>>

\* closeall(), lines 173-180 (DatabaseWrapper.closeall, base.py 94-96), for
\* at most limit calls
CloseAllUpTo(limit) ==
    /\ ncloseall < limit
    /\ ncloseall' = ncloseall + 1
    /\ Store(closeall(Self))
    /\ retOrder' = Returned(retOrder)
    /\ UNCHANGED <<cfgVars, nconns, nfails, ndrops, isolation, taskVars, now,
                   handled>>

CloseAll == CloseAllUpTo(MaxCloseAll)

\* the clock advances
Tick ==
    /\ now < MaxTime
    /\ now' = now + 1
    /\ UNCHANGED <<cfgVars, poolVars, counters, isolation, taskVars, handled,
                   retOrder>>

\* __init__, lines 68-78, for one configuration
InitPool(ms, mw, e, c) ==
    /\ maxsize = ms
    /\ maxwait = mw
    /\ expires = e
    /\ cleanup = c
    /\ size = 0
    /\ pool = <<>>
    /\ getters = <<>>
    /\ created_at = EmptyDict
    /\ latest_use = EmptyDict
    /\ latest_cleanup = InitLatestCleanup(e, c)
    /\ nconns = 0
    /\ nfails = 0
    /\ ndrops = 0
    /\ ncloseall = 0
    /\ closed = {}
    /\ isolation = EmptyDict
    /\ now = T0
    /\ handled = {}
    /\ retOrder = <<>>

InitTasks(T) ==
    /\ pc = [t \in T |-> "idle"]
    /\ conn = [t \in T |-> NoConn]
    /\ deadline = [t \in T |-> 0]
    /\ isolation_level = [t \in T |-> None]
    /\ err = [t \in T |-> NoErr]
    /\ prior = [t \in T |-> DefaultLevel]

\* ------------------------------------------------------- the registry
\* base.py, DatabaseWrapperMixin16.pool (lines 38-53).  An accessor is a
\* task reading the property of a wrapper; a Pool is the number of its
\* construction.  Each line that could be a suspension point ends a step:
\* the wait for the lock (line 43) and the construction of the Pool from
\* the connection parameters (line 48).
Accessors == 1..NumAccessors
Wrappers == 1..NumWrappers
Aliases == {"default", "other"}
NoPool == 0
NoAccessor == 0

\* base.py lines 28-29 and 33-34, nobody in the property
RegistryStart(wo, al) ==
    /\ connection_pools = EmptyDict
    /\ connection_pools_lock = NoAccessor
    /\ wrapper_pool = [w \in Wrappers |-> NoPool]
    /\ alias_of = al
    /\ wrapper_of = wo
    /\ apc = [a \in Accessors |-> "out"]
    /\ got = [a \in Accessors |-> NoPool]
    /\ constructed = <<>>

\* the pool specifications: one wrapper, whose property nobody reads
RegistryAtRest ==
    RegistryStart([a \in Accessors |-> 1], [w \in Wrappers |-> "default"])

Init ==
    /\ \E ms \in 1..MaxSizeCfg, mw \in {MaxWaitCfg},
          e \in {0, ExpiresCfg}, c \in {0, CleanupCfg} : InitPool(ms, mw, e, c)
    /\ InitTasks(Tasks)
    /\ close_fails = FALSE
    /\ RegistryAtRest

\* get() and put() with their sweeps, by concurrent tasks whose scopes ask
\* for the levels of R
GetPut(R) ==
    \/ \E t \in Tasks : GetReuse(t, R)
    \/ \E t \in Tasks : GetCreate(t, R)
    \/ \E t \in Tasks : FactoryOk(t)
    \/ \E t \in Tasks : FactoryFail(t)
    \/ \E t \in Tasks : GetWait(t, R)
    \/ \E t \in Tasks : Wake(t)
    \/ \E t \in Tasks : Timeout(t)
    \/ \E t \in Tasks : BodyReturn(t)
    \/ \E t \in Tasks : BodyRaise(t)
    \/ Cleanup
    \/ Tick

\* every operation: the backend may drop connections, and closeall() is
\* called from outside as well
Next ==
    \/ GetPut(NoRequest)
    \/ \E t \in Tasks : TransportClose(t)
    \/ CloseAll

Spec == Init /\ [][Next]_vars

\* get, put and cleanup only, on transports that stay open
NextGetPut == GetPut(NoRequest)

SpecGetPut == Init /\ [][NextGetPut]_vars

\* the same, with scopes that ask for an isolation level
NextScope == GetPut(Requests)

SpecScope == Init /\ [][NextScope]_vars

\* ------------------------------------------------- the overflow runs
\* tests.py, test1, test2, test_overflow: n tasks are spawned together and
\* each runs pool.execute('select pg_sleep(d)') once: it takes a connection,
\* holds it for the work period d and gives it back.  No expires, no
\* cleanup.  Here the clock is exact: connecting takes no time, a task gives
\* its connection back WorkTicks after taking it, gevent resumes a getter as
\* soon as its queue has an item and ends a wait at its deadline.
OverflowMaxSize == 3
OverflowMaxTime == T0 + WorkTicks * (NumOverflowTasks + 1) + 1
OverflowTaskCounts == {NumOverflowTasks \div 2, NumOverflowTasks}
OverflowMaxWaits == {WorkTicks - 1, WorkTicks + 1, 4 * WorkTicks + 1}

\* tests.py lines 20-24, 37-41, 63-65
InitOverflow ==
    /\ \E ms \in {OverflowMaxSize - 1, OverflowMaxSize}, mw \in OverflowMaxWaits :
          InitPool(ms, mw, 0, 0)
    /\ \E n \in OverflowTaskCounts : InitTasks(1..n)
    /\ close_fails = FALSE
    /\ RegistryAtRest

\* the spawned tasks start in the order they were spawned: get() creates
\* (lines 144-147) or waits (lines 156-159)
Started(t) == \A u \in DOMAIN pc : u < t => (pc[u] # "idle" \/ now > T0)
StartCreate(t) == now = T0 /\ Started(t) /\ GetCreate(t, NoRequest)
StartWait(t) == now = T0 /\ Started(t) /\ GetWait(t, NoRequest)

\* the factory returns: no more connections than maxsize are ever asked for
OverflowConnect(t) == Connect(t, OverflowMaxSize)

\* pg_sleep(d) is over: the scope ends normally and puts the connection back
WorkDone(t) ==
    /\ pc[t] = "body"
    /\ now = latest_use[conn[t]] + WorkTicks
    /\ BodyReturn(t)

\* the clock advances once nothing is left to do at the present reading
TickExact ==
    /\ now < OverflowMaxTime
    /\ \A t \in DOMAIN pc :
          /\ pc[t] # "creating"
          /\ pc[t] = "idle" => now > T0
          /\ pc[t] = "body" => now < latest_use[conn[t]] + WorkTicks
          /\ pc[t] = "waiting" => now < deadline[t]
    /\ ~(getters # <<>> /\ pool # <<>>)
    /\ now' = now + 1
    /\ UNCHANGED <<cfgVars, poolVars, counters, isolation, taskVars, handled,
                   retOrder>>

NextOverflow ==
    \/ \E t \in DOMAIN pc : StartCreate(t)
    \/ \E t \in DOMAIN pc : StartWait(t)
    \/ \E t \in DOMAIN pc : OverflowConnect(t)
    \/ \E t \in DOMAIN pc : Wake(t)
    \/ \E t \in DOMAIN pc : Timeout(t)
    \/ \E t \in DOMAIN pc : WorkDone(t)
    \/ TickExact

SpecOverflow == InitOverflow /\ [][NextOverflow]_vars


\* --------------------------------------------------- the sweep runs
\* tests.py, test_expires and test_cleanup: tasks take connections, give
\* them back at different times, and sweeps run from put and from cleanup();
\* maxsize lets every task hold a connection.
SweepConfigs ==
    {<<ExpiresCfg, 0>>, <<0, CleanupCfg>>, <<ExpiresCfg, CleanupCfg>>,
     <<ShortExpires, LongCleanup>>}

InitSweep ==
    /\ \E ec \in SweepConfigs : InitPool(NumSweepTasks, MaxWaitCfg, ec[1], ec[2])
    /\ InitTasks(1..NumSweepTasks)
    /\ close_fails = FALSE
    /\ RegistryAtRest

SweepConnect(t) == Connect(t, NumSweepTasks)

NextSweep ==
    \/ \E t \in DOMAIN pc : GetReuse(t, NoRequest)
    \/ \E t \in DOMAIN pc : GetCreate(t, NoRequest)
    \/ \E t \in DOMAIN pc : SweepConnect(t)
    \/ \E t \in DOMAIN pc : BodyReturn(t)
    \/ Cleanup
    \/ Tick

SpecSweep == InitSweep /\ [][NextSweep]_vars

\* --------------------------------------------------- the closing runs
\* sweeps and closeall(), called up to twice, on transports whose close()
\* fails or not
InitClose ==
    /\ \E e \in {0, ExpiresCfg}, c \in {0, CleanupCfg} :
          InitPool(MaxSizeCfg, MaxWaitCfg, e, c)
    /\ InitTasks(Tasks)
    /\ close_fails \in BOOLEAN
    /\ RegistryAtRest

CloseAllTwice == CloseAllUpTo(MaxCloseAll + 1)

NextClose ==
    \/ \E t \in Tasks : GetReuse(t, NoRequest)
    \/ \E t \in Tasks : GetCreate(t, NoRequest)
    \/ \E t \in Tasks : FactoryOk(t)
    \/ \E t \in Tasks : BodyReturn(t)
    \/ Cleanup
    \/ CloseAllTwice
    \/ Tick

SpecClose == InitClose /\ [][NextClose]_vars

\* -------------------------------------------- the registry's operations
poolState == <<maxsize, maxwait, expires, cleanup, close_fails, poolVars,
               counters, isolation, taskVars, now, handled, retOrder>>

MyWrapper(a) == wrapper_of[a]
MyAlias(a) == alias_of[wrapper_of[a]]

\* the property returns p to accessor a
PoolReturn(a, p) ==
    /\ got' = [got EXCEPT ![a] = p]
    /\ apc' = [apc EXCEPT ![a] = "out"]

\* lines 40-41: the fast path, or on to the lock
PoolCheck(a) ==
    /\ apc[a] = "out"
    /\ IF wrapper_pool[MyWrapper(a)] # NoPool
       THEN PoolReturn(a, wrapper_pool[MyWrapper(a)])
       ELSE /\ apc' = [apc EXCEPT ![a] = "lock"]
            /\ UNCHANGED got
    /\ UNCHANGED <<poolState, connection_pools, connection_pools_lock,
                   wrapper_pool, alias_of, wrapper_of, constructed>>

\* an entry into the critical section that does not wait for the lock
PoolAcquireNoLock(a) ==
    /\ apc[a] = "lock"
    /\ connection_pools_lock' = a
    /\ apc' = [apc EXCEPT ![a] = "locked"]
    /\ UNCHANGED <<poolState, connection_pools, wrapper_pool, alias_of,
                   wrapper_of, got, constructed>>

\* line 43: the Semaphore is free and the accessor takes it
PoolAcquire(a) ==
    /\ apc[a] = "lock"
    /\ connection_pools_lock = NoAccessor
    /\ connection_pools_lock' = a
    /\ apc' = [apc EXCEPT ![a] = "locked"]
    /\ UNCHANGED <<poolState, connection_pools, wrapper_pool, alias_of,
                   wrapper_of, got, constructed>>

\* lines 44-47 and 50-53, under the lock: the second look at self._pool,
\* then the look into connection_pools; the lock is released on return
PoolLookup(a) ==
    /\ apc[a] = "locked"
    /\ IF wrapper_pool[MyWrapper(a)] # NoPool
       THEN /\ PoolReturn(a, wrapper_pool[MyWrapper(a)])
            /\ connection_pools_lock' = NoAccessor
            /\ UNCHANGED wrapper_pool
       ELSE IF MyAlias(a) \notin DOMAIN connection_pools
       THEN /\ apc' = [apc EXCEPT ![a] = "construct"]
            /\ UNCHANGED <<got, connection_pools_lock, wrapper_pool>>
       ELSE /\ wrapper_pool' = [wrapper_pool EXCEPT ![MyWrapper(a)] =
                                   connection_pools[MyAlias(a)]]
            /\ PoolReturn(a, connection_pools[MyAlias(a)])
            /\ connection_pools_lock' = NoAccessor
    /\ UNCHANGED <<poolState, connection_pools, alias_of, wrapper_of,
                   constructed>>

\* lines 48-49 and 53: construct the Pool, publish it, release the lock
PoolConstruct(a) ==
    /\ apc[a] = "construct"
    /\ LET p == Len(constructed) + 1 IN
          /\ constructed' = Append(constructed, MyAlias(a))
          /\ wrapper_pool' = [wrapper_pool EXCEPT ![MyWrapper(a)] = p]
          /\ connection_pools' = DictSet(connection_pools, MyAlias(a), p)
          /\ PoolReturn(a, p)
    /\ connection_pools_lock' = NoAccessor
    /\ UNCHANGED <<poolState, alias_of, wrapper_of>>

InitRegistry ==
    /\ InitPool(1, MaxWaitCfg, 0, 0)
    /\ InitTasks(Tasks)
    /\ close_fails = FALSE
    /\ \E wo \in [Accessors -> Wrappers], al \in [Wrappers -> Aliases] :
          RegistryStart(wo, al)

NextRegistry ==
    \/ \E a \in Accessors : PoolCheck(a)
    \/ \E a \in Accessors : PoolAcquire(a)
    \/ \E a \in Accessors : PoolLookup(a)
    \/ \E a \in Accessors : PoolConstruct(a)

SpecRegistry == InitRegistry /\ [][NextRegistry]_vars

\* ------------------------------------------------------------- claims
CheckedOut == {t \in DOMAIN pc : pc[t] = "body"}
Creating == {t \in DOMAIN pc : pc[t] = "creating"}
SweepsOn == expires # 0 \/ cleanup # 0

\* a sweep ran in this step / the last sweep ran at the present clock reading
SweepStep == latest_cleanup' # latest_cleanup
SweptNow == SweepsOn /\ latest_cleanup = now + IntervalCleanup(expires, cleanup)

\* task t's call fails in this step with failure e
FailsWith(t, e) == pc[t] # "idle" /\ pc'[t] = "idle" /\ err'[t] = e

C2_WaiterServed ==
    [][\A t \in DOMAIN pc :
          (pc[t] = "waiting" /\ FailsWith(t, "CapacityExceeded"))
          => \A c \in Range(pool) : latest_use[c] >= deadline[t]]_vars

\* C3: size is the number of connections created and not yet closed for
\* good: those checked out, those in the free list, and those a factory
\* call in progress has been counted for.
C3_SizeIsLive ==
    size = Cardinality(CheckedOut) + Len(pool) + Cardinality(Creating)

\* C4: a scope that changed its connection's isolation level hands the
\* connection back to the pool at the level it had before.
C4_LevelRestored ==
    [][\A t \in DOMAIN pc :
          (pc[t] = "body" /\ pc'[t] = "idle" /\ conn[t] \in Range(pool')
             /\ isolation_level[t] # None)
          => isolation'[conn[t]] = prior[t]]_vars

\* C5: the free list is in return order, sweeps included, and get hands out
\* the connection returned last: after A then B are returned, B comes
\* first and A next.
C5_LIFO ==
    [][/\ pool' = retOrder'
       /\ \A t \in DOMAIN pc :
             (conn[t] = NoConn /\ conn'[t] \in Range(pool))
             => conn'[t] = Last(retOrder)]_vars

C5_Witness ==
    /\ pool = <<2, 1>>
    /\ SweptNow
    /\ latest_use[1] = now
    /\ latest_use[2] < now

C8_FactoryRollback ==
    [][\A t \in DOMAIN pc :
          /\ (pc[t] = "idle" /\ pc'[t] = "creating")
             => /\ size' = size + 1
                /\ UNCHANGED <<pool, created_at, latest_use>>
          /\ (pc[t] = "creating" /\ pc'[t] = "idle")
             => /\ err'[t] = "FactoryError"
                /\ size' = size - 1
                /\ UNCHANGED <<pool, created_at, latest_use>>]_vars

C8_Witness ==
    \E t \in DOMAIN pc :
       /\ pc[t] = "idle"
       /\ err[t] = "FactoryError"
       /\ pool # <<>>
       /\ size = Len(pool)

\* The free list a sweep of this step works on: the free list before the
\* step, with the connection the step puts on top of it; and the last use
\* the sweep reads for an entry.
Putter == {t \in DOMAIN pc : pc[t] = "body" /\ pc'[t] = "idle"}
SweptList ==
    IF Putter # {} THEN Append(pool, conn[CHOOSE t \in Putter : TRUE]) ELSE pool
SweptUse(c) ==
    IF \E t \in Putter : conn[t] = c THEN now ELSE latest_use[c]
Idle == {c \in Range(SweptList) : cleanup # 0 /\ SweptUse(c) < now - cleanup}
Expired == {c \in Range(SweptList) : expires # 0 /\ created_at[c] < now - expires}
NewlyClosed == closed' \ closed

\* C9: a sweep closes every free-list connection older than expires and
\* takes one off size for each connection it closes; if that was the pool's
\* only connection, size is 0 and the free list empty, so the next get is
\* on the create path; no get hands out a closed connection.
C9_Expiry ==
    [][/\ SweepStep =>
            /\ Expired \subseteq NewlyClosed
            /\ Expired \cap Range(pool') = {}
            /\ size - size' = Cardinality(NewlyClosed)
            /\ (size = 1 /\ Len(SweptList) = 1 /\ Range(SweptList) = Expired)
               => (size' = 0 /\ pool' = <<>> /\ size' < maxsize)
       /\ \A t \in DOMAIN pc :
             (conn[t] = NoConn /\ conn'[t] # NoConn) => conn'[t] \notin closed
      ]_vars

C9_Witness ==
    /\ expires # 0
    /\ cleanup = 0
    /\ SweptNow
    /\ now = T0 + ExpiresCfg + 1
    /\ closed = {1}
    /\ nconns = 1
    /\ size = 0
    /\ pool = <<>>
    /\ ncloseall = 0
    /\ ndrops = 0

\* C10: a sweep closes exactly the free-list entries idle for longer than
\* cleanup or older than expires, takes one off size for each, keeps the
\* others in the free list in their order, and closes no connection that
\* is checked out; with every connection in the free list and idle for
\* longer than cleanup, size is 0 afterwards.
C10_SweepExact ==
    [][SweepStep =>
         LET Evict == Idle \cup Expired
             Kept(c) == c \notin Evict
         IN  /\ NewlyClosed = Evict
             /\ size' = size - Cardinality(Evict)
             /\ pool' = SelectSeq(SweptList, Kept)
             /\ \A t \in DOMAIN pc :
                   pc'[t] = "body" => conn'[t] \notin NewlyClosed
             /\ (size = Len(SweptList) /\ Range(SweptList) = Idle) => size' = 0
      ]_vars

C10_Witness ==
    /\ cleanup # 0
    /\ expires = 0
    /\ SweptNow
    /\ now = T0 + CleanupCfg + 1
    /\ closed = {1}
    /\ pool = <<2>>
    /\ size = 1
    /\ ncloseall = 0
    /\ ndrops = 0

\* C6: in the overflow runs every attempt comes to an end, and it fails,
\* with the capacity error and for good, exactly when no connection comes
\* back within maxwait of the start of its wait: the first maxsize attempts
\* pass, and maxsize more for every work period that ends before maxwait
\* is over (3 of 8 with maxsize 3 and maxwait < d, 6 of 8 with
\* d < maxwait < 2d, all with maxwait beyond the run).
OverflowOver == now > T0 /\ \A t \in DOMAIN pc : pc[t] = "idle"
Passed == {t \in DOMAIN pc : err[t] = NoErr}
Raised == {t \in DOMAIN pc : err[t] = "CapacityExceeded"}
Exits(t) == pc[t] = "body" /\ pc'[t] = "idle"
\* the connection a task held is in the free list after the step, or a
\* sweep run by its put has closed it
PutBack(t) == conn[t] \in Range(pool') \/ conn[t] \in NewlyClosed

\* C11: when a scope ends with a failure and its connection's transport
\* reports closed, the pool runs closeall (every free-list connection is
\* closed, the free list is empty, size is 0), the closed connection is not
\* in the free list, and the caller sees the failure of the with-block.
C11_ClosedOnRaise ==
    [][\A t \in DOMAIN pc :
          (Exits(t) /\ conn[t] \in closed)
          => /\ err'[t] \in {"BodyError", "CommitOnClosed"}
             /\ conn[t] \notin Range(pool')
             /\ err'[t] = "BodyError"
                => /\ size' = 0
                   /\ pool' = <<>>
                   /\ closed' = closed \cup Range(pool)
                   /\ handled' = handled]_vars

C11_Witness ==
    \E t \in DOMAIN pc :
       /\ pc[t] = "idle"
       /\ err[t] = "BodyError"
       /\ ndrops = MaxDrops
       /\ ncloseall = 0
       /\ ~SweepsOn
       /\ Cardinality(closed) > ndrops
       /\ size = 0
       /\ pool = <<>>

\* C13: when a scope ends with a failure and its transport is open,
\* rollback is tried: either it succeeds and the connection is put back, or
\* its failure goes to the hub's error handler; in both cases the caller
\* sees the failure of the with-block, never the rollback's and never none.
C13_RollbackReported ==
    [][\A t \in DOMAIN pc :
          (Exits(t) /\ conn[t] \notin closed)
          => /\ err'[t] \in {NoErr, "BodyError"}
             /\ err'[t] = NoErr => (PutBack(t) /\ handled' = handled)
             /\ err'[t] = "BodyError"
                => IF PutBack(t) THEN handled' = handled
                   ELSE /\ conn[t] \notin handled
                        /\ handled' = handled \cup {conn[t]}]_vars

C13_Witness ==
    \E t \in DOMAIN pc :
       /\ pc[t] = "idle"
       /\ err[t] = "BodyError"
       /\ handled # {}
       /\ handled \cap Range(pool) = {}
       /\ pool # <<>>

\* C17: the timestamp maps have entries only for connections that are
\* checked out or in the free list, and every free-list entry has both: a
\* connection closed for good loses its entries in the same step.
LiveConns == {conn[t] : t \in CheckedOut} \cup Range(pool)
C17_TimestampsLive ==
    /\ DOMAIN created_at \subseteq LiveConns
    /\ DOMAIN latest_use \subseteq LiveConns
    /\ Range(pool) \subseteq (DOMAIN created_at \cap DOMAIN latest_use)

\* C19: when no scope is open (no connection checked out, none being
\* created), size does not exceed the length of the free list.
C19_NoLeakedSlot ==
    (CheckedOut = {} /\ Creating = {}) => size <= Len(pool)

\* C20: size is never negative.
C20_SizeNonNegative == size >= 0

\* C14: however the accessors of the wrappers interleave, at most one Pool
\* is constructed for an alias, and every access through a wrapper of that
\* alias, first or later, returns that Pool.
C14_OnePoolPerKey ==
    /\ \A i, j \in 1..Len(constructed) :
          constructed[i] = constructed[j] => i = j
    /\ \A a \in Accessors :
          got[a] # NoPool
          => /\ got[a] \in 1..Len(constructed)
             /\ constructed[got[a]] = MyAlias(a)
    /\ \A a, b \in Accessors :
          (got[a] # NoPool /\ got[b] # NoPool /\ MyAlias(a) = MyAlias(b))
          => got[a] = got[b]

C14_Witness ==
    /\ \A w1, w2 \in Wrappers : alias_of[w1] = alias_of[w2]
    /\ \E a, b \in Accessors : wrapper_of[a] # wrapper_of[b]
    /\ \A a \in Accessors : got[a] = 1 /\ apc[a] = "out"
    /\ \A w \in Wrappers : wrapper_pool[w] = 1
    /\ Len(constructed) = 1

\* a call of closeall() from outside ran in this step; the connections a
\* sweep of this step took out of the free list
CloseAllStep == ncloseall' = ncloseall + 1
Evicted == Range(SweptList) \ Range(pool')

\* C12: every call of closeall, the first and the one right after it,
\* leaves size 0 and the free list empty and fails no caller, also when the
\* transports' close() fails; it closes free-list connections only, none
\* that is checked out.
C12_CloseAllTwice ==
    [][CloseAllStep =>
         /\ size' = 0
         /\ pool' = <<>>
         /\ UNCHANGED <<pc, conn, err>>
         /\ NewlyClosed \subseteq Range(pool)
         /\ ~close_fails => NewlyClosed = Range(pool) \ closed
         /\ \A t \in CheckedOut : conn[t] \notin NewlyClosed
         /\ (size = 0 /\ pool = <<>>) => UNCHANGED poolVars
         /\ closeall(closeall(Self)) = closeall(Self)
      ]_vars

C12_Witness ==
    /\ ncloseall = MaxCloseAll + 1
    /\ close_fails
    /\ now = T0
    /\ size = 0
    /\ pool = <<>>
    /\ nconns = MaxConns
    /\ Cardinality(CheckedOut) = 1
    /\ \A t \in CheckedOut : conn[t] \notin closed
    /\ Creating = {}

\* C15: close_connection takes exactly one off size and removes the item's
\* creation and last-used entries whether or not the transport's close()
\* fails, and the failure reaches no caller: a sweep whose closes fail
\* still evicts every idle or expired entry and does not leave size
\* counting it.
C15_CloseBestEffort ==
    [][/\ \A c \in Range(pool) :
             LET S == close_connection(Self, c) IN
                /\ S.size = size - 1
                /\ c \notin DOMAIN S.created_at
                /\ c \notin DOMAIN S.latest_use
                /\ S.pool = pool
       /\ SweepStep =>
             /\ Evicted = Idle \cup Expired
             /\ size' = size - Cardinality(Evicted)
             /\ \A c \in Evicted :
                   c \notin DOMAIN created_at' /\ c \notin DOMAIN latest_use'
             /\ \A t \in DOMAIN pc :
                   err'[t] = IF t \in Putter THEN NoErr ELSE err[t]
      ]_vars

C15_Witness ==
    /\ close_fails
    /\ SweptNow
    /\ ncloseall = 0
    /\ nconns = 1
    /\ size = 0
    /\ pool = <<>>
    /\ closed = {}
    /\ created_at = EmptyDict
    /\ latest_use = EmptyDict
    /\ CheckedOut = {}

\* the order in which successive gets hand out the items of a free list
HandOutOrder(s) == [i \in 1..Len(s) |-> s[Len(s) + 1 - i]]

\* C16: a sweep keeps the hand-out order of the connections it retains:
\* whichever entries it evicts, successive gets hand out the survivors in
\* the order they would have come before the sweep.
C16_SweepKeepsOrder ==
    [][SweepStep =>
         LET Survives(c) == c \in Range(pool')
         IN  HandOutOrder(pool') = SelectSeq(HandOutOrder(SweptList), Survives)
      ]_vars

C16_Witness ==
    /\ expires = ExpiresCfg
    /\ cleanup = 0
    /\ SweptNow
    /\ now = T0 + ExpiresCfg + 1
    /\ pool = <<2, 3>>
    /\ closed = {1}
    /\ size = 2

\* the clock reading at which the last sweep ran
LastSweep == latest_cleanup - IntervalCleanup(expires, cleanup)

\* what C18 says of a put or a cleanup() before the next-sweep time, and of
\* the sweeps of one due time
C18_NotDueNoSweep ==
    /\ (latest_cleanup > now /\ Putter # {})
       => /\ pool' = SweptList
          /\ size' = size
          /\ latest_cleanup' = latest_cleanup
    /\ latest_cleanup > now => cleanup_queue(Self, now) = Self
    /\ SweepStep => (latest_cleanup <= now /\ latest_cleanup' > now)

=============================================================================
